---- MODULE Spec2Model ----
(***************************************************************************)
(* Model of the notebook TallerEsp.Vect-Hermitian-Unitary-Tensor-Circuits. *)
(* Every code cell is one action on the kernel's namespace; the variables  *)
(* are the names the cells assign.  The literal operands of the example    *)
(* cells are generalised to operands drawn by the initial predicate.       *)
(*                                                                         *)
(* Exact complex arithmetic is carried out in the ring Z[z][1/2] with      *)
(* z = exp(i*pi/4): it contains i = z^2, 1/sqrt(2) = (z - z^3)/2 and       *)
(* exp(i*k*pi/4), which are all the numbers the exact cells use.           *)
(***************************************************************************)
EXTENDS Integers, Sequences, FiniteSets, TLC

VARIABLES
    pc,                 \* the cell that has run, "start" before any
    raised,             \* the exception that ended the cell, "none" if none
    v1, v2, tensor_product_v,
    M1, M2, tensor_product_m,
    hermitian_matrix, is_hermitian, A, eigenvalues,
    unitary_matrix, unitary_matrix2, is_unitary,
    phi, input_state, output_state,
    product_tensor, U, k_Uf, tensor_product_l, final   \* k_Uf is the notebook's k

vecVars == <<v1, v2, tensor_product_v>>
matVars == <<M1, M2, tensor_product_m>>
hermVars == <<hermitian_matrix, is_hermitian, A, eigenvalues>>
unitVars == <<unitary_matrix, unitary_matrix2, is_unitary>>
mzVars == <<phi, input_state, output_state>>
circVars == <<product_tensor, U, k_Uf, tensor_product_l, final>>

vars == <<pc, raised, vecVars, matVars, hermVars, unitVars, mzVars, circVars>>

----------------------------------------------------------------------------
(* Bounds of the model. *)

\* how many entries of EntrySeq the generic operands are built from
NumEntries == 3
\* longest generic vector operand
MaxVecLen == 2
\* how many entries of EntrySeq the generic matrix operands are built from
NumMatEntries == 2

----------------------------------------------------------------------------
(* Complex numbers: (c[1] + c[2] z + c[3] z^2 + c[4] z^3) / 2^e, z^4 = -1. *)

RECURSIVE Reduce(_)
Reduce(x) ==
    IF x.e > 0 /\ \A k \in 1..4 : x.c[k] % 2 = 0
    THEN Reduce([c |-> [k \in 1..4 |-> x.c[k] \div 2], e |-> x.e - 1])
    ELSE x

RECURSIVE Pow2(_)
Pow2(n) == IF n = 0 THEN 1 ELSE 2 * Pow2(n - 1)

\* the Python literal a + b*1j
Cx(a, b) == [c |-> <<a, 0, b, 0>>, e |-> 0]

CZero == Cx(0, 0)
COne == Cx(1, 0)
CI == Cx(0, 1)

CAdd(x, y) ==
    LET m == IF x.e > y.e THEN x.e ELSE y.e
        sx == Pow2(m - x.e)
        sy == Pow2(m - y.e)
    IN Reduce([c |-> [k \in 1..4 |-> sx * x.c[k] + sy * y.c[k]], e |-> m])

CNeg(x) == [c |-> [k \in 1..4 |-> 0 - x.c[k]], e |-> x.e]

CSub(x, y) == CAdd(x, CNeg(y))

CMulConjBug(x, y) ==
    LET a == x.c
        b == <<y.c[1], 0 - y.c[4], 0 - y.c[3], 0 - y.c[2]>>
    IN Reduce([c |-> << a[1]*b[1] - a[2]*b[4] - a[3]*b[3] - a[4]*b[2],
                        a[1]*b[2] + a[2]*b[1] - a[3]*b[4] - a[4]*b[3],
                        a[1]*b[3] + a[2]*b[2] + a[3]*b[1] - a[4]*b[4],
                        a[1]*b[4] + a[2]*b[3] + a[3]*b[2] + a[4]*b[1] >>,
               e |-> x.e + y.e])

CMul(x, y) ==
    LET a == x.c
        b == y.c
    IN Reduce([c |-> << a[1]*b[1] - a[2]*b[4] - a[3]*b[3] - a[4]*b[2],
                        a[1]*b[2] + a[2]*b[1] - a[3]*b[4] - a[4]*b[3],
                        a[1]*b[3] + a[2]*b[2] + a[3]*b[1] - a[4]*b[4],
                        a[1]*b[4] + a[2]*b[3] + a[3]*b[2] + a[4]*b[1] >>,
               e |-> x.e + y.e])

\* complex conjugate: z -> z^-1 = -z^3
CConj(x) == [c |-> <<x.c[1], 0 - x.c[4], 0 - x.c[3], 0 - x.c[2]>>, e |-> x.e]

----------------------------------------------------------------------------
(* Arbitrary-precision integers: the tolerance tests of np.allclose compare *)
(* numbers that differ by a factor of 1e13 and more, which a 32-bit        *)
(* integer cannot hold.  A number is the little-endian sequence of its     *)
(* limbs, value = SUM a[k] * Base^(k-1); in normal form every limb but the *)
(* last is in 0..Base-1 and the last one is the sign, 0 or -1.             *)

Base == 1000

BLast(a) == a[Len(a)]

RECURSIVE Carry(_, _)
Carry(a, c) ==
    IF a = <<>>
    THEN IF c \in {0, -1} THEN <<c>> ELSE <<c % Base>> \o Carry(<<>>, c \div Base)
    ELSE <<(Head(a) + c) % Base>> \o Carry(Tail(a), (Head(a) + c) \div Base)

RECURSIVE Trim(_)
Trim(s) ==
    LET n == Len(s)
    IN IF n >= 2 /\ s[n] = 0 /\ s[n - 1] = 0 THEN Trim(SubSeq(s, 1, n - 1))
       ELSE IF n >= 2 /\ s[n] = -1 /\ s[n - 1] = Base - 1
            THEN Trim(SubSeq(s, 1, n - 2) \o <<-1>>)
            ELSE s

BNorm(a) == Trim(Carry(a, 0))

Big(n) == BNorm(<<n>>)

Limb(a, k) == IF k <= Len(a) THEN a[k] ELSE 0

MaxOf(m, n) == IF m > n THEN m ELSE n
MinOf(m, n) == IF m < n THEN m ELSE n

BAdd(a, b) == BNorm([k \in 1..MaxOf(Len(a), Len(b)) |-> Limb(a, k) + Limb(b, k)])

BSub(a, b) == BNorm([k \in 1..MaxOf(Len(a), Len(b)) |-> Limb(a, k) - Limb(b, k)])

RECURSIVE Conv(_, _, _, _)
\* SUM over i in lo..hi of a[i] * b[k + 1 - i], hi given as the remaining upper end
Conv(a, b, k, i) ==
    IF i > MinOf(k, Len(a)) THEN 0
    ELSE a[i] * b[k + 1 - i] + Conv(a, b, k, i + 1)

BMul(a, b) ==
    BNorm([k \in 1..(Len(a) + Len(b) - 1) |-> Conv(a, b, k, MaxOf(1, k + 1 - Len(b)))])

BIsNeg(a) == BLast(a) = -1

BLeq(a, b) == ~BIsNeg(BSub(b, a))

BSq(a) == BMul(a, a)

BZero == <<0>>

NRows(X) == Len(X)
NCols(X) == Len(X[1])

BNeg(a) == BSub(BZero, a)

----------------------------------------------------------------------------
(* Floating-point arrays.  The operands of the tolerance tests lie on a    *)
(* grid of GridInv points per unit, and an array is kept exactly, as the   *)
(* complex integer numerators m of its entries over one positive           *)
(* denominator den: no operation rounds.                                   *)

\* grid points per unit: the operand 1.0 is the grid integer GridInv
GridInv == 100000000

\* np.sqrt(2) on the grid of 1e-8
Sqrt2Grid == 141421356

\* 1/np.sqrt(2) on the grid of 1e-8
InvSqrt2Grid == 70710678

\* defaults of np.allclose: atol = 1/AtolInv = 1e-8, rtol = 1/RtolInv = 1e-5
AtolInv == 100000000
RtolInv == 100000

\* the grid point re + im*1j (in units of 1/GridInv)
Gr(re, im) == [re |-> re, im |-> im]

QC(re, im) == [re |-> Big(re), im |-> Big(im)]

QAdd(x, y) == [re |-> BAdd(x.re, y.re), im |-> BAdd(x.im, y.im)]

QMul(x, y) ==
    [re |-> BSub(BMul(x.re, y.re), BMul(x.im, y.im)),
     im |-> BAdd(BMul(x.re, y.im), BMul(x.im, y.re))]

QScale(x, k) == [re |-> BMul(x.re, k), im |-> BMul(x.im, k)]

QConj(x) == [re |-> x.re, im |-> BNeg(x.im)]

\* |x|^2
QAbsSq(x) == BAdd(BSq(x.re), BSq(x.im))

\* np.array(M) of a matrix of grid points
Array(M) ==
    [den |-> Big(GridInv),
     m |-> [i \in 1..NRows(M) |-> [j \in 1..NCols(M) |-> QC(M[i][j].re, M[i][j].im)]]]

\* X / (p/GridInv): division of an array by a real scalar on the grid
DivScalar(X, p) ==
    [den |-> BMul(X.den, Big(p)),
     m |-> [i \in 1..NRows(X.m) |-> [j \in 1..NCols(X.m) |->
               QScale(X.m[i][j], Big(GridInv))]]]

TransposeOnly(X) ==
    [den |-> X.den,
     m |-> [j \in 1..NCols(X.m) |-> [i \in 1..NRows(X.m) |-> X.m[i][j]]]]

\* X.conj().T
ConjT(X) ==
    [den |-> X.den,
     m |-> [j \in 1..NCols(X.m) |-> [i \in 1..NRows(X.m) |-> QConj(X.m[i][j])]]]

RECURSIVE DotSum(_, _, _, _, _)
DotSum(X, Y, i, j, k) ==
    IF k = 0 THEN QC(0, 0)
    ELSE QAdd(DotSum(X, Y, i, j, k - 1), QMul(X.m[i][k], Y.m[k][j]))

\* np.dot(X, Y) of two 2-D arrays with NCols(X) = NRows(Y)
Dot(X, Y) ==
    [den |-> BMul(X.den, Y.den),
     m |-> [i \in 1..NRows(X.m) |-> [j \in 1..NCols(Y.m) |->
               DotSum(X, Y, i, j, NCols(X.m))]]]

\* np.eye(n)
Eye(n) ==
    [den |-> Big(1),
     m |-> [i \in 1..n |-> [j \in 1..n |-> IF i = j THEN QC(1, 0) ELSE QC(0, 0)]]]

\* sqrt(a) <= c + sqrt(b) for a, b, c >= 0
SqrtLeq(a, c, b) ==
    IF BLeq(a, BSq(c)) THEN TRUE
    ELSE LET d == BSub(BAdd(a, BSq(c)), b)
         IN IF BLeq(d, BZero) THEN TRUE
            ELSE BLeq(BSq(d), BMul(Big(4), BMul(BSq(c), a)))

\* np.isclose(x, y) of two finite entries x/unit and y/unit:
\*     |x - y| <= atol + rtol * |y|
IsClose(x, y, unit) ==
    LET d == [re |-> BSub(x.re, y.re), im |-> BSub(x.im, y.im)]
    IN SqrtLeq(BMul(BSq(BMul(Big(AtolInv), Big(RtolInv))), QAbsSq(d)),
               BMul(Big(RtolInv), unit),
               BMul(BSq(Big(AtolInv)), QAbsSq(y)))

\* numpy broadcasting of two 2-D shapes: each axis equal, or 1 on one side
BroadcastOk(X, Y) ==
    /\ NRows(X.m) = NRows(Y.m) \/ NRows(X.m) = 1 \/ NRows(Y.m) = 1
    /\ NCols(X.m) = NCols(Y.m) \/ NCols(X.m) = 1 \/ NCols(Y.m) = 1

\* entry (i, j) of X broadcast: an axis of length 1 is repeated
Bcast(X, i, j) ==
    X.m[IF NRows(X.m) = 1 THEN 1 ELSE i][IF NCols(X.m) = 1 THEN 1 ELSE j]

AllCloseUpper(X, Y) ==
    \A i \in 1..MaxOf(NRows(X.m), NRows(Y.m)) :
        \A j \in i..MaxOf(NCols(X.m), NCols(Y.m)) :
            IsClose(QScale(Bcast(X, i, j), Y.den), QScale(Bcast(Y, i, j), X.den),
                    BMul(X.den, Y.den))

\* np.allclose(X, Y) of two arrays whose shapes broadcast: every entry is close
AllClose(X, Y) ==
    \A i \in 1..MaxOf(NRows(X.m), NRows(Y.m)) :
        \A j \in 1..MaxOf(NCols(X.m), NCols(Y.m)) :
            IsClose(QScale(Bcast(X, i, j), Y.den), QScale(Bcast(Y, i, j), X.den),
                    BMul(X.den, Y.den))

Eig2DetBug(X) ==
    LET a == X.m[1][1]
        b == X.m[1][2]
        c == X.m[2][1]
        d == X.m[2][2]
        tr == QAdd(a, d)
        dt == QAdd(QMul(a, d), QMul(b, c))
    IN [den |-> X.den, trace |-> tr, det |-> dt,
        disc |-> QAdd(QMul(tr, tr), QScale(dt, Big(-4)))]

\* np.linalg.eig of a 2 x 2 array: the eigenvalues are the roots of
\* l^2 - trace*l + det, (trace +/- sqrt(disc)) / 2 with disc = trace^2 - 4*det;
\* trace is over den, det and disc are over den^2
Eig2(X) ==
    LET a == X.m[1][1]
        b == X.m[1][2]
        c == X.m[2][1]
        d == X.m[2][2]
        tr == QAdd(a, d)
        dt == QAdd(QMul(a, d), QScale(QMul(b, c), Big(-1)))
    IN [den |-> X.den, trace |-> tr, det |-> dt,
        disc |-> QAdd(QMul(tr, tr), QScale(dt, Big(-4)))]

----------------------------------------------------------------------------
(* numpy.kron: the outer product of the operands, reshaped row-major. *)

RECURSIVE Ravel(_)
Ravel(rows) == IF rows = <<>> THEN <<>> ELSE Head(rows) \o Ravel(Tail(rows))

Outer(a, b) == [i \in 1..Len(a) |-> [j \in 1..Len(b) |-> CMul(a[i], b[j])]]

KronVecColMajor(a, b) ==
    Ravel([j \in 1..Len(b) |-> [i \in 1..Len(a) |-> CMul(a[i], b[j])]])

KronVec(a, b) == Ravel(Outer(a, b))

\* row i*r + k of kron(A, B): the rows k of the blocks A[i,j] * B, side by side
KronRow(X, Y, i, k) ==
    Ravel([j \in 1..NCols(X) |-> [l \in 1..NCols(Y) |-> CMul(X[i][j], Y[k][l])]])

KronMatBlockBug(X, Y) ==
    Ravel([k \in 1..NRows(Y) |-> [i \in 1..NRows(X) |-> KronRow(X, Y, i, k)]])

KronMat(X, Y) ==
    Ravel([i \in 1..NRows(X) |-> [k \in 1..NRows(Y) |-> KronRow(X, Y, i, k)]])

----------------------------------------------------------------------------
(* Operands. *)

EntrySeq == << Cx(1, 1), Cx(2, -1), Cx(1, -2), Cx(3, 0), Cx(0, 1), Cx(0, 0) >>

Entries(n) == {EntrySeq[k] : k \in 1..n}

Vecs == UNION {[1..n -> Entries(NumEntries)] : n \in 1..MaxVecLen}

\* the third operand of an associativity check
ThirdVecs == UNION {[1..n -> Entries(NumEntries)] : n \in 1..2}

MatShapes == {<<1, 2>>, <<2, 1>>, <<2, 2>>}

Mats == UNION {[1..s[1] -> [1..s[2] -> Entries(NumMatEntries)]] : s \in MatShapes}

\* the vectors of the statement of Exercise 3
ExerciseV == <<Cx(1, 1), Cx(2, -1)>>
ExerciseW == <<Cx(1, -2), Cx(3, 0)>>

\* the operands of the example cells
ExampleV1 == <<Cx(1, 2), Cx(3, 4)>>
ExampleV2 == <<Cx(5, 6), Cx(7, 8)>>
ExampleM1 == << <<Cx(1, 2), Cx(3, 4)>>, <<Cx(5, 6), Cx(7, 8)>> >>
ExampleM2 == << <<Cx(9, 10), Cx(11, 12)>>, <<Cx(13, 14), Cx(15, 16)>> >>

----------------------------------------------------------------------------
(* The namespace before a cell has assigned its names. *)

VecUnset == v1 = <<>> /\ v2 = <<>> /\ tensor_product_v = <<>>

MatUnset == M1 = <<>> /\ M2 = <<>> /\ tensor_product_m = <<>>

HermUnset ==
    hermitian_matrix = <<>> /\ is_hermitian = FALSE /\ A = <<>> /\ eigenvalues = <<>>

UnitUnset == unitary_matrix = <<>> /\ unitary_matrix2 = <<>> /\ is_unitary = FALSE

MZUnset == phi = 0 /\ input_state = <<>> /\ output_state = <<>>

CircUnset ==
    /\ product_tensor = <<>> /\ U = <<>> /\ k_Uf = <<>>
    /\ tensor_product_l = <<>> /\ final = <<>>

----------------------------------------------------------------------------
(* The tensor product cells. *)

InitVec ==
    /\ pc = "start"
    /\ \/ v1 \in Vecs /\ v2 \in Vecs
       \/ v1 = ExerciseV /\ v2 = ExerciseW
       \/ v1 = ExampleV1 /\ v2 = ExampleV2
    /\ tensor_product_v = <<>>
    /\ raised = "none"
    /\ MatUnset /\ HermUnset /\ UnitUnset /\ MZUnset /\ CircUnset

\* "Tensor Product for Complex Vectors" example cell, on the drawn operands
TensorVecCell ==
    /\ pc = "start"
    /\ tensor_product_v' = KronVec(v1, v2)
    /\ pc' = "tensor_vec"
    /\ UNCHANGED <<raised, v1, v2, matVars, hermVars, unitVars, mzVars, circVars>>

\* Exercise 3 answer cell: v1 = np.array([1+1, 2-1j]), v2 = np.array([1-2j, 3+0j])
Exercise3Cell ==
    /\ pc = "start"
    /\ v1' = <<Cx(1 + 1, 0), Cx(2, -1)>>
    /\ v2' = <<Cx(1, -2), Cx(3, 0)>>
    /\ tensor_product_v' = KronVec(v1', v2')
    /\ pc' = "exercise3"
    /\ UNCHANGED <<raised, matVars, hermVars, unitVars, mzVars, circVars>>

NextVec == TensorVecCell \/ Exercise3Cell

SpecVec == InitVec /\ [][NextVec]_vars

InitMat ==
    /\ pc = "start"
    /\ \/ M1 \in Mats /\ M2 \in Mats
       \/ M1 = ExampleM1 /\ M2 = ExampleM2
    /\ tensor_product_m = <<>>
    /\ raised = "none"
    /\ VecUnset /\ HermUnset /\ UnitUnset /\ MZUnset /\ CircUnset

\* "Tensor Product for Complex Matrices" example cell, on the drawn operands
TensorMatCell ==
    /\ pc = "start"
    /\ tensor_product_m' = KronMat(M1, M2)
    /\ pc' = "tensor_mat"
    /\ UNCHANGED <<raised, M1, M2, vecVars, hermVars, unitVars, mzVars, circVars>>

\* Exercise 4 cell: M1 = [[0, 1], [1, 0]], M2 = [[1j, 0], [0, -1j]]
Exercise4Cell ==
    /\ pc = "start"
    /\ M1' = << <<Cx(0, 0), Cx(1, 0)>>, <<Cx(1, 0), Cx(0, 0)>> >>
    /\ M2' = << <<Cx(0, 1), Cx(0, 0)>>, <<Cx(0, 0), Cx(0, -1)>> >>
    /\ tensor_product_m' = KronMat(M1', M2')
    /\ pc' = "exercise4"
    /\ UNCHANGED <<raised, vecVars, hermVars, unitVars, mzVars, circVars>>

NextMat == TensorMatCell \/ Exercise4Cell

SpecMat == InitMat /\ [][NextMat]_vars

----------------------------------------------------------------------------
(* The Hermitian cells. *)

\* how many entries of HermEntrySeq the generic operands are built from
NumHermEntries == 6

\* grid points (units of 1e-8) around the two tolerances of np.allclose
HermEntrySeq ==
    << Gr(0, 0), Gr(0, 100001), Gr(0, -100003), Gr(0, -99999), Gr(0, -100001),
       Gr(1, 0), Gr(60000, 80000), Gr(60000, -80000) >>

HermEntries(n) == {HermEntrySeq[k] : k \in 1..n}

GridMats(r, c, E) == [1..r -> [1..c -> E]]

HermOperands ==
    UNION { GridMats(1, 1, HermEntries(NumHermEntries)),
            GridMats(1, 2, HermEntries(NumHermEntries)),
            GridMats(2, 1, HermEntries(NumHermEntries)),
            GridMats(2, 2, HermEntries(NumHermEntries)),
            GridMats(2, 3, HermEntries(2)),
            GridMats(3, 2, HermEntries(2)),
            GridMats(3, 3, HermEntries(2)) }

\* Exercise 1: np.array([[3, 2+1j], [2-1j, 1]])
ExerciseH ==
    << <<Gr(3 * GridInv, 0), Gr(2 * GridInv, GridInv)>>,
       <<Gr(2 * GridInv, 0 - GridInv), Gr(GridInv, 0)>> >>

\* Hermitian example: np.array([[2+0j, 2-1j], [2+1j, 3+0j]])
ExampleH ==
    << <<Gr(2 * GridInv, 0), Gr(2 * GridInv, 0 - GridInv)>>,
       <<Gr(2 * GridInv, GridInv), Gr(3 * GridInv, 0)>> >>

\* np.allclose(X, X.conj().T)
HermitianCheck(X) == AllClose(X, ConjT(X))

InitHerm ==
    /\ pc = "start"
    /\ raised = "none"
    /\ hermitian_matrix \in HermOperands \cup {ExerciseH, ExampleH}
    /\ is_hermitian = FALSE /\ A = <<>> /\ eigenvalues = <<>>
    /\ VecUnset /\ MatUnset /\ UnitUnset /\ MZUnset /\ CircUnset

\* Hermitian example cell, on the drawn operand: np.allclose raises ValueError
\* when the shapes of X and X.conj().T do not broadcast
HermitianCell ==
    /\ pc = "start"
    /\ LET X == Array(hermitian_matrix)
       IN IF BroadcastOk(X, ConjT(X))
          THEN is_hermitian' = HermitianCheck(X) /\ raised' = "none"
          ELSE raised' = "ValueError" /\ UNCHANGED is_hermitian
    /\ pc' = "hermitian"
    /\ UNCHANGED <<hermitian_matrix, A, eigenvalues, vecVars, matVars, unitVars, mzVars, circVars>>

\* Exercise 1 cell, on a drawn 2 x 2 operand: the Hermitian check, then
\* np.linalg.eig of the same matrix
Exercise1Cell ==
    /\ pc = "start"
    /\ NRows(hermitian_matrix) = 2 /\ NCols(hermitian_matrix) = 2
    /\ is_hermitian' = HermitianCheck(Array(hermitian_matrix))
    /\ A' = hermitian_matrix
    /\ eigenvalues' = Eig2(Array(A'))
    /\ pc' = "exercise1"
    /\ UNCHANGED <<raised, hermitian_matrix, vecVars, matVars, unitVars, mzVars, circVars>>

NextHerm == HermitianCell \/ Exercise1Cell

SpecHerm == InitHerm /\ [][NextHerm]_vars

----------------------------------------------------------------------------
(* The unitary cells. *)

\* how many entries of UnitEntrySeq the generic operands are built from
NumUnitEntries == 5

\* the identity both unitary cells compare with is np.eye(2)
EyeDim == 2

\* grid points: 0, 1, 1j, 1 + 5e-6, 1e-8, 2e-8, 1 + 5.01e-6
UnitEntrySeq ==
    << Gr(0, 0), Gr(GridInv, 0), Gr(0, GridInv), Gr(GridInv + 500, 0), Gr(1, 0),
       Gr(2, 0), Gr(GridInv + 501, 0) >>

UnitEntries(n) == {UnitEntrySeq[k] : k \in 1..n}

UnitOperands ==
    UNION { GridMats(1, 1, UnitEntries(NumUnitEntries)),
            GridMats(2, 2, UnitEntries(NumUnitEntries)),
            GridMats(3, 3, UnitEntries(2)) }

\* Unitary example: [[1/sqrt 2, 1/sqrt 2], [1j/sqrt 2, -1j/sqrt 2]]
ExampleU ==
    << <<Gr(InvSqrt2Grid, 0), Gr(InvSqrt2Grid, 0)>>,
       <<Gr(0, InvSqrt2Grid), Gr(0, 0 - InvSqrt2Grid)>> >>

\* Exercise 2: np.array([[1, 1j], [1j, 1]])
ExerciseU ==
    << <<Gr(GridInv, 0), Gr(0, GridInv)>>, <<Gr(0, GridInv), Gr(GridInv, 0)>> >>

InitUnit ==
    /\ pc = "start"
    /\ raised = "none"
    /\ unitary_matrix \in UnitOperands \cup {ExampleU}
    /\ unitary_matrix2 = <<>> /\ is_unitary = FALSE
    /\ VecUnset /\ MatUnset /\ HermUnset /\ MZUnset /\ CircUnset

\* Unitary example cell, on the drawn operand:
\* np.allclose(np.dot(X, X.conj().T), np.eye(2))
UnitaryCell ==
    /\ pc = "start"
    /\ LET X == Array(unitary_matrix)
           P == Dot(X, ConjT(X))
       IN IF BroadcastOk(P, Eye(EyeDim))
          THEN is_unitary' = AllClose(P, Eye(EyeDim)) /\ raised' = "none"
          ELSE raised' = "ValueError" /\ UNCHANGED is_unitary
    /\ pc' = "unitary"
    /\ UNCHANGED <<unitary_matrix, unitary_matrix2, vecVars, matVars, hermVars, mzVars, circVars>>

\* Exercise 2 cell: unitary_matrix2 = unitary_matrix * 1 / np.sqrt(2)
Exercise2Cell ==
    /\ pc = "start"
    /\ unitary_matrix' = ExerciseU
    /\ unitary_matrix2' = DivScalar(Array(unitary_matrix'), Sqrt2Grid)
    /\ is_unitary' = AllClose(Dot(unitary_matrix2', ConjT(unitary_matrix2')), Eye(EyeDim))
    /\ pc' = "exercise2"
    /\ UNCHANGED <<raised, vecVars, matVars, hermVars, mzVars, circVars>>

NextUnit == UnitaryCell \/ Exercise2Cell

SpecUnit == InitUnit /\ [][NextUnit]_vars

----------------------------------------------------------------------------
(* Exercise 5: the Mach-Zehnder interferometer, in exact arithmetic.  The  *)
(* phase phi is a multiple p of pi/4.                                      *)

\* largest phase, in units of pi/4
MaxPhi == 7

\* 1/np.sqrt(2) = (z - z^3)/2
InvSqrt2 == [c |-> <<0, 1, 0, -1>>, e |-> 1]

\* np.exp(1j * phi) for phi = p*pi/4: z^p
ExpI(p) ==
    LET q == p % 8
        u == [k \in 1..4 |-> IF k = (q % 4) + 1 THEN 1 ELSE 0]
    IN IF q < 4 THEN [c |-> u, e |-> 0] ELSE CNeg([c |-> u, e |-> 0])

RECURSIVE MatSum(_, _, _, _, _)
MatSum(X, Y, i, j, k) ==
    IF k = 0 THEN CZero
    ELSE CAdd(MatSum(X, Y, i, j, k - 1), CMul(X[i][k], Y[k][j]))

\* np.dot of two matrices
MatMul(X, Y) ==
    [i \in 1..NRows(X) |-> [j \in 1..NCols(Y) |-> MatSum(X, Y, i, j, NCols(X))]]

RECURSIVE VecSum(_, _, _, _)
VecSum(X, v, i, k) ==
    IF k = 0 THEN CZero
    ELSE CAdd(VecSum(X, v, i, k - 1), CMul(X[i][k], v[k]))

\* np.dot of a matrix and a vector
MatVec(X, v) == [i \in 1..NRows(X) |-> VecSum(X, v, i, NCols(X))]

\* scalar * matrix
Scaled(x, X) == [i \in 1..NRows(X) |-> [j \in 1..NCols(X) |-> CMul(x, X[i][j])]]

beam_splitter == Scaled(InvSqrt2, << <<COne, CI>>, <<CI, COne>> >>)

phase_shifter_one_arm(p) == << <<ExpI(p), CZero>>, <<CZero, COne>> >>

phase_shifter(p) == << <<ExpI(p), CZero>>, <<CZero, ExpI(p)>> >>

mach_zehnder_interferometer(p) ==
    LET BS == beam_splitter
        PS == phase_shifter(p)
    IN MatMul(PS, MatMul(BS, MatMul(PS, BS)))

InputStates == [1..2 -> {CZero, COne, CI}]

InitMZ ==
    /\ pc = "start"
    /\ raised = "none"
    /\ phi \in 0..MaxPhi
    /\ input_state \in InputStates
    /\ output_state = <<>>
    /\ VecUnset /\ MatUnset /\ HermUnset /\ UnitUnset /\ CircUnset

\* Exercise 5 cell, on the drawn phase and input state (the cell's own are
\* phi = pi/4 and input_state = [1, 0])
Exercise5Cell ==
    /\ pc = "start"
    /\ output_state' = MatVec(mach_zehnder_interferometer(phi), input_state)
    /\ pc' = "exercise5"
    /\ UNCHANGED <<raised, phi, input_state, vecVars, matVars, hermVars, unitVars, circVars>>

NextMZ == Exercise5Cell

SpecMZ == InitMZ /\ [][NextMZ]_vars

----------------------------------------------------------------------------
(* Exercise 6: the Deutsch-style circuit on two qubits, in exact           *)
(* arithmetic.                                                             *)

\* np.array([[1, 1], [1, -1]])
Hadamard == << <<COne, COne>>, <<COne, CNeg(COne)>> >>

\* np.array([[1, 0], [0, 1]])
Identity2 == << <<COne, CZero>>, <<CZero, COne>> >>

\* a permutation matrix that exchanges components 2 and 3 instead
UfSwapLast ==
    << <<COne, CZero, CZero, CZero>>, <<CZero, COne, CZero, CZero>>,
       <<CZero, CZero, CZero, COne>>, <<CZero, CZero, COne, CZero>> >>

\* np.array([[0,1,0,0], [1,0,0,0], [0,0,1,0], [0,0,0,1]])
Uf ==
    << <<CZero, COne, CZero, CZero>>, <<COne, CZero, CZero, CZero>>,
       <<CZero, CZero, COne, CZero>>, <<CZero, CZero, CZero, COne>> >>

\* the qubits of the cell
CellV1 == <<CZero, COne>>

CellV2 == <<COne, CZero>>

InitCirc ==
    /\ pc = "start"
    /\ raised = "none"
    /\ v1 \in InputStates
    /\ v2 \in InputStates
    /\ tensor_product_v = <<>>
    /\ MatUnset /\ HermUnset /\ UnitUnset /\ MZUnset /\ CircUnset

\* Exercise 6 cell, on the drawn qubits (the cell's own are v1 = [0, 1] and
\* v2 = [1, 0]); M3, M6 and M7 are 1/np.sqrt(2) * [[1, 1], [1, -1]]
Exercise6Cell ==
    /\ pc = "start"
    /\ tensor_product_v' = KronVec(v1, v2)
    /\ M1' = Hadamard
    /\ M2' = Identity2
    /\ tensor_product_m' = KronMat(Scaled(InvSqrt2, M1'), M2')
    /\ product_tensor' = MatVec(tensor_product_m', tensor_product_v')
    /\ U' = Uf
    /\ k_Uf' = MatVec(U', product_tensor')
    /\ tensor_product_l' =
           KronMat(Scaled(InvSqrt2, Hadamard), Scaled(InvSqrt2, Hadamard))
    /\ final' = MatVec(tensor_product_l', k_Uf')
    /\ pc' = "exercise6"
    /\ UNCHANGED <<raised, v1, v2, hermVars, unitVars, mzVars>>

NextCirc == Exercise6Cell

SpecCirc == InitCirc /\ [][NextCirc]_vars

----------------------------------------------------------------------------
\* C1: np.kron(v, w) has length m*n and entry i*n + j is v[i] * w[j]; for
\* v = [1+i, 2-i], w = [1-2i, 3] it is [3-i, 3+3i, -5i, 6-3i].
C1_KronVecEntries ==
    pc = "tensor_vec" =>
        /\ Len(tensor_product_v) = Len(v1) * Len(v2)
        /\ \A i \in 0..(Len(v1) - 1) : \A j \in 0..(Len(v2) - 1) :
               tensor_product_v[i * Len(v2) + j + 1] = CMul(v1[i + 1], v2[j + 1])
        /\ (v1 = ExerciseV /\ v2 = ExerciseW) =>
               tensor_product_v = <<Cx(3, -1), Cx(3, 3), Cx(0, -5), Cx(6, -3)>>

C1_Witness ==
    /\ pc = "tensor_vec"
    /\ v1 = ExerciseV /\ v2 = ExerciseW
    /\ tensor_product_v = <<Cx(3, -1), Cx(3, 3), Cx(0, -5), Cx(6, -3)>>

\* C2: np.kron(A, B) is (p*r) x (q*s) with C[i*r+k, j*s+l] = A[i,j] * B[k,l];
\* the Exercise 4 product has i at (0,2), (2,0), -i at (1,3), (3,1), 0 elsewhere.
C2_KronMatEntries ==
    /\ pc \in {"tensor_mat", "exercise4"} =>
        LET p == NRows(M1)
            q == NCols(M1)
            r == NRows(M2)
            s == NCols(M2)
        IN /\ Len(tensor_product_m) = p * r
           /\ \A x \in 1..(p * r) : Len(tensor_product_m[x]) = q * s
           /\ \A i \in 0..(p - 1), j \in 0..(q - 1), k \in 0..(r - 1), l \in 0..(s - 1) :
                  tensor_product_m[i * r + k + 1][j * s + l + 1]
                      = CMul(M1[i + 1][j + 1], M2[k + 1][l + 1])
    /\ pc = "exercise4" =>
        /\ M1 = << <<Cx(0, 0), Cx(1, 0)>>, <<Cx(1, 0), Cx(0, 0)>> >>
        /\ M2 = << <<Cx(0, 1), Cx(0, 0)>>, <<Cx(0, 0), Cx(0, -1)>> >>
        /\ \A x \in 0..3, y \in 0..3 :
               tensor_product_m[x + 1][y + 1] =
                   IF <<x, y>> \in {<<0, 2>>, <<2, 0>>} THEN Cx(0, 1)
                   ELSE IF <<x, y>> \in {<<1, 3>>, <<3, 1>>} THEN Cx(0, -1)
                   ELSE Cx(0, 0)

C2_Witness ==
    /\ pc = "exercise4"
    /\ tensor_product_m[1][3] = Cx(0, 1)
    /\ tensor_product_m[4][2] = Cx(0, -1)

C9_Exercise3Answer ==
    pc = "exercise3" =>
        /\ v1 = ExerciseV
        /\ v2 = ExerciseW
        /\ tensor_product_v = <<Cx(2, -4), Cx(6, 0), Cx(0, -5), Cx(6, -3)>>
        /\ tensor_product_v = KronVec(ExerciseV, ExerciseW)

----------------------------------------------------------------------------
(* The entries of a matrix of grid points, for the statements below. *)

IsSquare(M) == NRows(M) = NCols(M)

\* |M[i,j] - conj(M[j,i])|^2 in grid units
HermDiffSq(M, i, j) ==
    BAdd(BSq(Big(M[i][j].re - M[j][i].re)), BSq(Big(M[i][j].im + M[j][i].im)))

\* |M[i,j] - conj(M[j,i])| <= 1e-8
HermWithinAtol(M, i, j) ==
    BLeq(BMul(BSq(Big(AtolInv)), HermDiffSq(M, i, j)), BSq(Big(GridInv)))

\* |M[i,j] - conj(M[j,i])| <= 1e-8 + 1e-5 * |M[j,i]|
HermWithinMixed(M, i, j) ==
    SqrtLeq(BMul(BSq(BMul(Big(AtolInv), Big(RtolInv))), HermDiffSq(M, i, j)),
            BMul(Big(RtolInv), Big(GridInv)),
            BMul(BSq(Big(AtolInv)), QAbsSq(QC(M[j][i].re, M[j][i].im))))

\* M equals its conjugate transpose exactly
ExactHermitian(M) ==
    /\ IsSquare(M)
    /\ \A i \in 1..NRows(M), j \in 1..NRows(M) :
           M[i][j].re = M[j][i].re /\ M[i][j].im = 0 - M[j][i].im

\* C3 as stated: the Hermitian check of a square matrix returns true iff
\* max |M[i,j] - conj(M[j,i])| <= tol (tol = 1e-8), false and no error
\* otherwise, and true for H = [[3, 2+i], [2-i, 1]].
C3_HermitianIffMaxWithinTol ==
    (pc = "hermitian" /\ IsSquare(hermitian_matrix)) =>
        /\ raised = "none"
        /\ is_hermitian <=>
               \A i \in 1..NRows(hermitian_matrix), j \in 1..NRows(hermitian_matrix) :
                   HermWithinAtol(hermitian_matrix, i, j)
        /\ hermitian_matrix = ExerciseH => is_hermitian

\* C3 amended: the Hermitian check of a square matrix returns true iff every
\* entry has |M[i,j] - conj(M[j,i])| <= 1e-8 + 1e-5 * |M[j,i]| (so it is true
\* whenever the maximum is <= 1e-8), false and no error otherwise, and true
\* for H = [[3, 2+i], [2-i, 1]].
C3_HermitianIffAllClose ==
    (pc = "hermitian" /\ IsSquare(hermitian_matrix)) =>
        /\ raised = "none"
        /\ is_hermitian <=>
               \A i \in 1..NRows(hermitian_matrix), j \in 1..NRows(hermitian_matrix) :
                   HermWithinMixed(hermitian_matrix, i, j)
        /\ (\A i \in 1..NRows(hermitian_matrix), j \in 1..NRows(hermitian_matrix) :
                HermWithinAtol(hermitian_matrix, i, j)) => is_hermitian
        /\ hermitian_matrix = ExerciseH => is_hermitian

\* a matrix the check accepts although an entry is further than 1e-8 from
\* the conjugate of its mirror image
C3_Witness ==
    /\ pc = "hermitian" /\ IsSquare(hermitian_matrix) /\ NRows(hermitian_matrix) = 2
    /\ is_hermitian
    /\ ~HermWithinAtol(hermitian_matrix, 1, 2)

\* C5: the Hermitian check of a non-square matrix (1 x n and n x 1 included)
\* fails with a dimension error and never returns a boolean.
C5_NonSquareRaises ==
    (pc = "hermitian" /\ ~IsSquare(hermitian_matrix)) => raised = "ValueError"

\* C6: the Hermitian check gives the same boolean for a square matrix and for
\* its conjugate transpose, although np.isclose(a, b) is asymmetric in a, b.
C6_HermitianOfConjT ==
    (pc = "hermitian" /\ IsSquare(hermitian_matrix)) =>
        /\ raised = "none"
        /\ is_hermitian = HermitianCheck(ConjT(Array(hermitian_matrix)))

\* a matrix whose entry (1,2) is close to the conjugate of entry (2,1) while
\* entry (2,1) is not close to the conjugate of entry (1,2)
C6_Witness ==
    /\ pc = "hermitian" /\ IsSquare(hermitian_matrix) /\ NRows(hermitian_matrix) = 2
    /\ HermWithinMixed(hermitian_matrix, 1, 2)
    /\ ~HermWithinMixed(hermitian_matrix, 2, 1)
    /\ ~is_hermitian

----------------------------------------------------------------------------
(* The rows of a matrix of grid points, for the statements below. *)

RECURSIVE RowProd(_, _, _, _)
\* SUM over k of M[i,k] * conj(M[j,k]), in units of 1/GridInv^2
RowProd(M, i, j, k) ==
    IF k = 0 THEN QC(0, 0)
    ELSE QAdd(RowProd(M, i, j, k - 1),
              QMul(QC(M[i][k].re, M[i][k].im), QC(M[j][k].re, 0 - M[j][k].im)))

\* |(M M^H)[i,j] - I[i,j]|^2 in units of 1/GridInv^4
UnitDiffSq(M, i, j) ==
    LET x == RowProd(M, i, j, NCols(M))
        one == IF i = j THEN BSq(Big(GridInv)) ELSE BZero
    IN QAbsSq([re |-> BSub(x.re, one), im |-> x.im])

\* |(M M^H)[i,j] - I[i,j]| <= 1e-8
UnitWithinAtol(M, i, j) ==
    BLeq(BMul(BSq(Big(AtolInv)), UnitDiffSq(M, i, j)), BSq(BSq(Big(GridInv))))

\* |(M M^H)[i,j] - I[i,j]| <= 1e-8 + 1e-5 * I[i,j]
UnitWithinMixed(M, i, j) ==
    BLeq(BMul(BSq(BMul(Big(AtolInv), Big(RtolInv))), UnitDiffSq(M, i, j)),
         BSq(BMul(IF i = j THEN Big(RtolInv + AtolInv) ELSE Big(RtolInv),
                  BSq(Big(GridInv)))))

C10_MachZehnder ==
    pc = "exercise5" =>
        /\ output_state =
               MatVec(phase_shifter(phi), MatVec(beam_splitter,
                   MatVec(phase_shifter(phi), MatVec(beam_splitter, input_state))))
        /\ Scaled(Cx(2, 0), MatMul(beam_splitter, beam_splitter))
               = << <<CZero, Cx(0, 2)>>, <<Cx(0, 2), CZero>> >>
        /\ input_state = <<COne, CZero>> =>
            /\ output_state = <<CZero, CMul(ExpI(2 * phi), CI)>>
            /\ output_state[1] = CZero
            /\ CMul(output_state[2], CConj(output_state[2])) = COne
            /\ phi = 1 => output_state = <<CZero, Cx(-1, 0)>>

C10_Witness ==
    /\ pc = "exercise5"
    /\ phi = 1
    /\ input_state = <<COne, CZero>>
    /\ output_state = <<CZero, Cx(-1, 0)>>

----------------------------------------------------------------------------
(* Squared norm of a state vector, for the statement of C11. *)

RECURSIVE NormSqUpTo(_, _)
NormSqUpTo(v, n) ==
    IF n = 0 THEN CZero ELSE CAdd(NormSqUpTo(v, n - 1), CMul(v[n], CConj(v[n])))

NormSq(v) == NormSqUpTo(v, Len(v))

Half == CMul(InvSqrt2, InvSqrt2)

====
